---------------------------- MODULE Spec2Model ----------------------------
(***************************************************************************)
(* Model of src/ECS.hpp: EntityManager, ComponentContainer,                *)
(* ComponentManager, SystemManager and the Registry facade.                *)
(*                                                                         *)
(* The asserts of the source are modelled as active (a build without       *)
(* NDEBUG): a failed assert aborts the program.  The variable `error`      *)
(* records which assert fired; once it is set no operation runs any more.  *)
(***************************************************************************)
EXTENDS Integers, Sequences, FiniteSets, TLC

\* ECS_ENTITY_MAX, configured small (the macro is overridable, default 5000).
ENTITY_MAX == 3

\* ECS_COMPONENT_MAX, configured small (the macro is overridable, default 32).
COMPONENT_MAX == 2

\* Bit width of ECS_ENTITY_TYPE (overridable; here std::uint16_t).
EntityBits == 16

\* Longest free queue explored (entitiesAvailable_ is an unbounded std::queue).
MaxAvailable == 4

\* Longest sequence of Registry calls explored.
MaxCalls == 5

\* Longest sequence of ComponentManager calls explored.
MaxManagerCalls == 4

\* Component values 1..MaxValue; 0 is the value-initialised T of a fresh array.
MaxValue == 2

\* The component types T the program instantiates the templates with.
ComponentTypes == {"Position", "Velocity"}

\* The system types S the program instantiates the templates with.
SystemTypes == {"Movement"}

\* Entity arithmetic wraps at 2^EntityBits (Entity is an unsigned integer).
EntityModulus == 2 ^ EntityBits

\* Handles in range, and the handles the callers pass (one out of range).
Entities == 0 .. (ENTITY_MAX - 1)
EntityArgs == 0 .. ENTITY_MAX

Values == 1 .. MaxValue
DefaultValue == 0

\* std::bitset<COMPONENT_MAX>, as the set of the positions of its set bits.
Signature == SUBSET (0 .. (COMPONENT_MAX - 1))
EmptySignature == {}

VARIABLES
    entitiesAvailable_,   \* EntityManager: queue of free handles
    entitiesLiving_,      \* EntityManager: counter of living entities
    entitySignatures_,    \* EntityManager::signatures_
    componentTypes_,      \* ComponentManager: type -> slot
    componentContainer_,  \* ComponentManager: type -> ComponentContainer
    nextType_,            \* ComponentManager: next slot
    systems_,             \* SystemManager: system type -> System.entities
    systemSignatures_,    \* SystemManager::signatures_: system type -> mask
    boolToBitset,         \* how the build converts in (a && b) == mask
    live,                 \* history: handles issued by create, not yet destroyed
    call,                 \* history: the last operation and its arguments
    calls,                \* history: the number of Registry calls made
    error                 \* "none", or the failure that ended the program

vars == << entitiesAvailable_, entitiesLiving_, entitySignatures_,
           componentTypes_, componentContainer_, nextType_,
           systems_, systemSignatures_, boolToBitset, live, call, calls, error >>

entityVars == << entitiesAvailable_, entitiesLiving_, entitySignatures_, live >>
componentVars == << componentTypes_, componentContainer_, nextType_ >>
systemVars == << systems_, systemSignatures_ >>

----------------------------------------------------------------------------
(* Maps: std::unordered_map as a function on its key set.                  *)

EmptyMap == << >>

\* m[k] = v of std::unordered_map: inserts the key or overwrites its value.
MapPut(m, k, v) == [x \in (DOMAIN m) \cup {k} |-> IF x = k THEN v ELSE m[x]]

\* m.erase(k)
MapErase(m, k) == [x \in (DOMAIN m) \ {k} |-> m[x]]

\* m.insert(pair(k, v)): keeps the old value when the key is present.
MapInsert(m, k, v) == IF k \in DOMAIN m THEN m ELSE MapPut(m, k, v)

NoCall == [op |-> "none", type |-> "none", entity |-> 0, arg |-> 0, ret |-> 0]

Call(op, type, entity, arg, ret) ==
    [op |-> op, type |-> type, entity |-> entity, arg |-> arg, ret |-> ret]

----------------------------------------------------------------------------
(* ComponentContainer<T>                                                   *)

\* ComponentContainer(): array of value-initialised T, empty maps, size_ 0.
NewContainer ==
    [ components_       |-> [i \in 0 .. (ENTITY_MAX - 1) |-> DefaultValue],
      mapEntityToIndex_ |-> EmptyMap,
      mapIndexToEntity_ |-> EmptyMap,
      size_             |-> 0 ]

\* The find() != end() test of get, remove and destroyed.
ContainerHas(c, entity) == entity \in DOMAIN c.mapEntityToIndex_

\* get(entity), past its assert.
ContainerGet(c, entity) == c.components_[c.mapEntityToIndex_[entity]]

\* insert(entity, component), past its assert.
ContainerInsert(c, entity, component) ==
    LET index == c.size_ IN
    [ components_       |-> [c.components_ EXCEPT ![index] = component],
      mapEntityToIndex_ |-> MapPut(c.mapEntityToIndex_, entity, index),
      mapIndexToEntity_ |-> MapPut(c.mapIndexToEntity_, index, entity),
      size_             |-> c.size_ + 1 ]

\* remove(entity) with the move of the last component left out.
ContainerRemoveNoMove(c, entity) ==
    LET indexRemoved == c.mapEntityToIndex_[entity]
        indexLast    == c.size_ - 1
        entityLast   == c.mapIndexToEntity_[indexLast]
    IN
    [ components_       |-> c.components_,
      mapEntityToIndex_ |->
          MapErase(MapPut(c.mapEntityToIndex_, entityLast, indexRemoved), entity),
      mapIndexToEntity_ |->
          MapErase(MapPut(c.mapIndexToEntity_, indexRemoved, entityLast), indexLast),
      size_             |-> c.size_ - 1 ]

\* remove(entity) erasing the removed slot's index instead of the last one.
ContainerRemoveEraseRemoved(c, entity) ==
    LET indexRemoved == c.mapEntityToIndex_[entity]
        indexLast    == c.size_ - 1
        entityLast   == c.mapIndexToEntity_[indexLast]
    IN
    [ components_       |->
          [c.components_ EXCEPT ![indexRemoved] = c.components_[indexLast]],
      mapEntityToIndex_ |->
          MapErase(MapPut(c.mapEntityToIndex_, entityLast, indexRemoved), entity),
      mapIndexToEntity_ |->
          MapErase(MapPut(c.mapIndexToEntity_, indexRemoved, entityLast), indexRemoved),
      size_             |-> c.size_ - 1 ]

\* remove(entity), past its assert: swap-remove.
ContainerRemove(c, entity) ==
    LET indexRemoved == c.mapEntityToIndex_[entity]
        indexLast    == c.size_ - 1
        entityLast   == c.mapIndexToEntity_[indexLast]
    IN
    [ components_       |->
          [c.components_ EXCEPT ![indexRemoved] = c.components_[indexLast]],
      mapEntityToIndex_ |->
          MapErase(MapPut(c.mapEntityToIndex_, entityLast, indexRemoved), entity),
      mapIndexToEntity_ |->
          MapErase(MapPut(c.mapIndexToEntity_, indexRemoved, entityLast), indexLast),
      size_             |-> c.size_ - 1 ]

\* destroyed(entity) that empties the store when the entity is not found.
ContainerDestroyedUnchecked(c, entity) ==
    IF ~ContainerHas(c, entity)
    THEN [c EXCEPT !.mapEntityToIndex_ = EmptyMap,
                   !.mapIndexToEntity_ = EmptyMap,
                   !.size_ = 0]
    ELSE ContainerRemove(c, entity)

\* destroyed(entity): nothing when the entity is not found, else remove.
ContainerDestroyed(c, entity) ==
    IF ~ContainerHas(c, entity) THEN c ELSE ContainerRemove(c, entity)


----------------------------------------------------------------------------
(* EntityManager                                                           *)

\* ++entitiesLiving_ and --entitiesLiving_ on the unsigned Entity type.
Increment(n) == (n + 1) % EntityModulus
Decrement(n) == (n + EntityModulus - 1) % EntityModulus

\* The bounds assert of create.
CanCreate == entitiesLiving_ < ENTITY_MAX

\* The bounds assert of destroy and of both signature accessors.
InRange(entity) == entity < ENTITY_MAX

----------------------------------------------------------------------------
(* ComponentManager                                                        *)

\* componentTypes_.find(type) != componentTypes_.end()
Installed(T) == T \in DOMAIN componentTypes_

\* install<T>(), past its assert: the type map after the insert.
InstallTypes(T) == MapInsert(componentTypes_, T, nextType_)

\* install<T>(), past its assert: the container map after the insert.
InstallContainers(T) == MapInsert(componentContainer_, T, NewContainer)

\* destroyed(entity): every container is told.
ManagerDestroyed(containers, entity) ==
    [T \in DOMAIN containers |-> ContainerDestroyed(containers[T], entity)]

----------------------------------------------------------------------------
(* SystemManager                                                           *)

\* The source writes (signatureEntity && signatureSystem) == signatureSystem.
\* && is the logical operator: each bitset collapses to "any bit set".  The
\* comparison of that bool with the mask converts one side to the other's
\* type; which side is a property of the build, fixed in boolToBitset.
LogicalAnd(signatureEntity, signatureSystem) ==
    (signatureEntity # EmptySignature) /\ (signatureSystem # EmptySignature)

\* bitset(unsigned long long) of a bool: bit 0 for true, no bit for false.
BitsetOfBool(b) == IF b THEN {0} ELSE EmptySignature

\* The per-bit test (signatureEntity & signatureSystem) == signatureSystem.
SignatureMatchesBitwise(signatureEntity, signatureSystem) ==
    (signatureEntity \cap signatureSystem) = signatureSystem

\* The test of signatureChanged as the source has it.
SignatureMatches(signatureEntity, signatureSystem) ==
    IF boolToBitset
    THEN BitsetOfBool(LogicalAnd(signatureEntity, signatureSystem)) = signatureSystem
    ELSE LogicalAnd(signatureEntity, signatureSystem) = (signatureSystem # EmptySignature)

\* signatures_[type] reads the mask and inserts an all-zero one when absent.
MaskOf(masks, S) == IF S \in DOMAIN masks THEN masks[S] ELSE EmptySignature

\* signatures_ after signatureChanged: every installed system has an entry.
MasksAfterChange(masks, systems) ==
    [S \in (DOMAIN masks) \cup (DOMAIN systems) |-> MaskOf(masks, S)]

\* systems_ after signatureChanged(entity, signatureEntity).
SystemsAfterChange(systems, masks, entity, signatureEntity) ==
    [S \in DOMAIN systems |->
        IF SignatureMatches(signatureEntity, MaskOf(masks, S))
        THEN systems[S] \cup {entity}
        ELSE systems[S] \ {entity}]

\* entityDestroyed(entity) that erases the entity from no system.
SystemsAfterDestroyedKeep(systems, entity) == systems

\* systems_ after entityDestroyed(entity).
SystemsAfterDestroyed(systems, entity) ==
    [S \in DOMAIN systems |-> systems[S] \ {entity}]

----------------------------------------------------------------------------
(* Initial state: Registry(), i.e. the three managers after construction.  *)

Init ==
    /\ entitiesAvailable_ = [i \in 1 .. ENTITY_MAX |-> i - 1]
    /\ entitiesLiving_ = 0
    /\ entitySignatures_ = [e \in Entities |-> EmptySignature]
    /\ componentTypes_ = EmptyMap
    /\ componentContainer_ = EmptyMap
    /\ nextType_ = 0
    /\ systems_ = EmptyMap
    /\ systemSignatures_ = EmptyMap
    /\ boolToBitset \in BOOLEAN
    /\ live = {}
    /\ call = NoCall
    /\ calls = 0
    /\ error = "none"

\* Every Registry call: the program still runs, and the call is counted.
Running ==
    /\ error = "none"
    /\ calls < MaxCalls
    /\ calls' = calls + 1

\* A failed assert (or an uncaught exception): the program ends here.
Abort(c, e) ==
    /\ call' = c
    /\ error' = e

----------------------------------------------------------------------------
(* Registry                                                                *)

\* Registry::entityCreate -> EntityManager::create
entityCreate ==
    /\ Running
    /\ IF ~CanCreate
       THEN /\ Abort(Call("entityCreate", "none", 0, 0, 0), "CapacityExceeded")
            /\ UNCHANGED << entityVars, componentVars, systemVars, boolToBitset >>
       ELSE LET entity == Head(entitiesAvailable_) IN
            /\ entitiesAvailable_' = Tail(entitiesAvailable_)
            /\ entitiesLiving_' = Increment(entitiesLiving_)
            /\ live' = live \cup {entity}
            /\ call' = Call("entityCreate", "none", entity, 0, entity)
            /\ UNCHANGED << entitySignatures_, componentVars, systemVars,
                            boolToBitset, error >>

\* Registry::entityDestroy: EntityManager::destroy, then
\* ComponentManager::destroyed, then SystemManager::entityDestroyed.
entityDestroy(entity) ==
    /\ Running
    /\ Len(entitiesAvailable_) < MaxAvailable
    /\ IF ~InRange(entity)
       THEN /\ Abort(Call("entityDestroy", "none", entity, 0, 0), "InvalidEntity")
            /\ UNCHANGED << entityVars, componentVars, systemVars, boolToBitset >>
       ELSE /\ entitySignatures_' = [entitySignatures_ EXCEPT ![entity] = EmptySignature]
            /\ entitiesAvailable_' = Append(entitiesAvailable_, entity)
            /\ entitiesLiving_' = Decrement(entitiesLiving_)
            /\ componentContainer_' = ManagerDestroyed(componentContainer_, entity)
            /\ systems_' = SystemsAfterDestroyed(systems_, entity)
            /\ live' = live \ {entity}
            /\ call' = Call("entityDestroy", "none", entity, 0, 0)
            /\ UNCHANGED << componentTypes_, nextType_, systemSignatures_,
                            boolToBitset, error >>

\* Registry::componentAdd<T>: install<T>() unconditionally, then the
\* signature bit and the notification.  ComponentManager::add is not called.
componentAdd(T, entity, component) ==
    /\ Running
    /\ IF Installed(T)
       THEN /\ Abort(Call("componentAdd", T, entity, component, 0),
                     "DuplicateRegistration")
            /\ UNCHANGED << entityVars, componentVars, systemVars, boolToBitset >>
       ELSE /\ componentTypes_' = InstallTypes(T)
            /\ componentContainer_' = InstallContainers(T)
            /\ nextType_' = nextType_ + 1
            /\ call' = Call("componentAdd", T, entity, component, 0)
            /\ UNCHANGED << entitiesAvailable_, entitiesLiving_, live, boolToBitset >>
            /\ IF ~InRange(entity)
               THEN /\ error' = "InvalidEntity"
                    /\ UNCHANGED << entitySignatures_, systemVars >>
               ELSE IF ~(nextType_ < COMPONENT_MAX)
               THEN \* std::bitset::set throws std::out_of_range
                    /\ error' = "OutOfRange"
                    /\ UNCHANGED << entitySignatures_, systemVars >>
               ELSE LET signature == entitySignatures_[entity] \cup {nextType_} IN
                    /\ entitySignatures_' =
                           [entitySignatures_ EXCEPT ![entity] = signature]
                    /\ systems_' = SystemsAfterChange(systems_, systemSignatures_,
                                                      entity, signature)
                    /\ systemSignatures_' = MasksAfterChange(systemSignatures_, systems_)
                    /\ error' = "none"

\* Registry::componentGet<T> -> ComponentManager::get -> ComponentContainer::get
componentGet(T, entity) ==
    /\ Running
    /\ UNCHANGED << entityVars, componentVars, systemVars, boolToBitset >>
    /\ IF ~Installed(T)
       THEN Abort(Call("componentGet", T, entity, 0, 0), "NotRegistered")
       ELSE IF ~ContainerHas(componentContainer_[T], entity)
       THEN Abort(Call("componentGet", T, entity, 0, 0), "MissingComponent")
       ELSE /\ call' = Call("componentGet", T, entity, 0,
                            ContainerGet(componentContainer_[T], entity))
            /\ error' = "none"

\* Registry::componentInstall<T> -> ComponentManager::install
componentInstall(T) ==
    /\ Running
    /\ UNCHANGED << entityVars, systemVars, boolToBitset >>
    /\ IF Installed(T)
       THEN /\ Abort(Call("componentInstall", T, 0, 0, 0), "DuplicateRegistration")
            /\ UNCHANGED componentVars
       ELSE /\ componentTypes_' = InstallTypes(T)
            /\ componentContainer_' = InstallContainers(T)
            /\ nextType_' = nextType_ + 1
            /\ call' = Call("componentInstall", T, 0, 0, 0)
            /\ error' = "none"

\* componentRemove<T> whose container step tolerates a missing entity (as
\* destroyed does) instead of asserting.
componentRemoveUnchecked(T, entity) ==
    /\ Running
    /\ UNCHANGED << entitiesAvailable_, entitiesLiving_, live, componentTypes_,
                    nextType_, boolToBitset >>
    /\ IF ~Installed(T)
       THEN /\ Abort(Call("componentRemove", T, entity, 0, 0), "NotRegistered")
            /\ UNCHANGED << entitySignatures_, componentContainer_, systemVars >>
       ELSE /\ componentContainer_' =
                   [componentContainer_ EXCEPT
                        ![T] = ContainerDestroyed(componentContainer_[T], entity)]
            /\ call' = Call("componentRemove", T, entity, 0, 0)
            /\ IF ~InRange(entity)
               THEN /\ error' = "InvalidEntity"
                    /\ UNCHANGED << entitySignatures_, systemVars >>
               ELSE IF ~(componentTypes_[T] < COMPONENT_MAX)
               THEN /\ error' = "OutOfRange"
                    /\ UNCHANGED << entitySignatures_, systemVars >>
               ELSE LET signature == entitySignatures_[entity] \ {componentTypes_[T]} IN
                    /\ entitySignatures_' =
                           [entitySignatures_ EXCEPT ![entity] = signature]
                    /\ systems_' = SystemsAfterChange(systems_, systemSignatures_,
                                                      entity, signature)
                    /\ systemSignatures_' = MasksAfterChange(systemSignatures_, systems_)
                    /\ error' = "none"

\* Registry::componentRemove<T>: the container's remove, then the signature
\* bit and the notification.
componentRemove(T, entity) ==
    /\ Running
    /\ UNCHANGED << entitiesAvailable_, entitiesLiving_, live, componentTypes_,
                    nextType_, boolToBitset >>
    /\ IF ~Installed(T)
       THEN /\ Abort(Call("componentRemove", T, entity, 0, 0), "NotRegistered")
            /\ UNCHANGED << entitySignatures_, componentContainer_, systemVars >>
       ELSE IF ~ContainerHas(componentContainer_[T], entity)
       THEN /\ Abort(Call("componentRemove", T, entity, 0, 0), "MissingComponent")
            /\ UNCHANGED << entitySignatures_, componentContainer_, systemVars >>
       ELSE /\ componentContainer_' =
                   [componentContainer_ EXCEPT
                        ![T] = ContainerRemove(componentContainer_[T], entity)]
            /\ call' = Call("componentRemove", T, entity, 0, 0)
            /\ IF ~InRange(entity)
               THEN /\ error' = "InvalidEntity"
                    /\ UNCHANGED << entitySignatures_, systemVars >>
               ELSE IF ~(componentTypes_[T] < COMPONENT_MAX)
               THEN /\ error' = "OutOfRange"
                    /\ UNCHANGED << entitySignatures_, systemVars >>
               ELSE LET signature == entitySignatures_[entity] \ {componentTypes_[T]} IN
                    /\ entitySignatures_' =
                           [entitySignatures_ EXCEPT ![entity] = signature]
                    /\ systems_' = SystemsAfterChange(systems_, systemSignatures_,
                                                      entity, signature)
                    /\ systemSignatures_' = MasksAfterChange(systemSignatures_, systems_)
                    /\ error' = "none"

\* Registry::systemInstall<S> -> SystemManager::install
systemInstall(S) ==
    /\ Running
    /\ UNCHANGED << entityVars, componentVars, systemSignatures_, boolToBitset >>
    /\ IF S \in DOMAIN systems_
       THEN /\ Abort(Call("systemInstall", S, 0, 0, 0), "DuplicateRegistration")
            /\ UNCHANGED systems_
       ELSE /\ systems_' = MapInsert(systems_, S, {})
            /\ call' = Call("systemInstall", S, 0, 0, 0)
            /\ error' = "none"

\* systemSignature<S> that also re-evaluates every live entity against the
\* new mask.
systemSignatureReevaluate(S, signature) ==
    /\ Running
    /\ UNCHANGED << entityVars, componentVars, boolToBitset >>
    /\ IF S \notin DOMAIN systems_
       THEN /\ Abort(Call("systemSignature", S, 0, signature, 0), "NotRegistered")
            /\ UNCHANGED << systems_, systemSignatures_ >>
       ELSE /\ systemSignatures_' = MapInsert(systemSignatures_, S, signature)
            /\ systems_' =
                   [systems_ EXCEPT
                        ![S] = {entity \in live :
                                    SignatureMatchesBitwise(entitySignatures_[entity],
                                                            systemSignatures_'[S])}]
            /\ call' = Call("systemSignature", S, 0, signature, 0)
            /\ error' = "none"

\* Registry::systemSignature<S> -> SystemManager::signature: an insert, which
\* leaves a mask that is already in the map as it is.
systemSignature(S, signature) ==
    /\ Running
    /\ UNCHANGED << entityVars, componentVars, systems_, boolToBitset >>
    /\ IF S \notin DOMAIN systems_
       THEN /\ Abort(Call("systemSignature", S, 0, signature, 0), "NotRegistered")
            /\ UNCHANGED systemSignatures_
       ELSE /\ systemSignatures_' = MapInsert(systemSignatures_, S, signature)
            /\ call' = Call("systemSignature", S, 0, signature, 0)
            /\ error' = "none"

Next ==
    \/ entityCreate
    \/ \E entity \in EntityArgs : entityDestroy(entity)
    \/ \E T \in ComponentTypes, entity \in EntityArgs, component \in Values :
           componentAdd(T, entity, component)
    \/ \E T \in ComponentTypes, entity \in EntityArgs : componentGet(T, entity)
    \/ \E T \in ComponentTypes : componentInstall(T)
    \/ \E T \in ComponentTypes, entity \in EntityArgs : componentRemove(T, entity)
    \/ \E S \in SystemTypes : systemInstall(S)
    \/ \E S \in SystemTypes, signature \in Signature : systemSignature(S, signature)

Spec == Init /\ [][Next]_vars

----------------------------------------------------------------------------
(* A ComponentContainer<Position> used directly: insert, get, remove and   *)
(* destroyed are its public methods.  The entities are handles in range;   *)
(* for remove and destroyed, call.arg records the slot the entity held.    *)

Store == componentContainer_["Position"]

\* The container after construction, held by the manager as install makes it.
InitContainer ==
    /\ entitiesAvailable_ = [i \in 1 .. ENTITY_MAX |-> i - 1]
    /\ entitiesLiving_ = 0
    /\ entitySignatures_ = [e \in Entities |-> EmptySignature]
    /\ componentTypes_ = MapPut(EmptyMap, "Position", 0)
    /\ componentContainer_ = MapPut(EmptyMap, "Position", NewContainer)
    /\ nextType_ = 1
    /\ systems_ = EmptyMap
    /\ systemSignatures_ = EmptyMap
    /\ boolToBitset \in BOOLEAN
    /\ live = {}
    /\ call = NoCall
    /\ calls = 0
    /\ error = "none"

\* Everything but the container itself.
containerFrame ==
    << entityVars, componentTypes_, nextType_, systemVars, boolToBitset, calls >>

\* ComponentContainer::insert
insert(entity, component) ==
    /\ error = "none"
    /\ UNCHANGED containerFrame
    /\ IF ContainerHas(Store, entity)
       THEN /\ Abort(Call("insert", "Position", entity, component, 0),
                     "DuplicateComponent")
            /\ UNCHANGED componentContainer_
       ELSE /\ componentContainer_' =
                   [componentContainer_ EXCEPT
                        !["Position"] = ContainerInsert(Store, entity, component)]
            /\ call' = Call("insert", "Position", entity, component, 0)
            /\ error' = "none"

\* ComponentContainer::get
get(entity) ==
    /\ error = "none"
    /\ UNCHANGED << containerFrame, componentContainer_ >>
    /\ IF ~ContainerHas(Store, entity)
       THEN Abort(Call("get", "Position", entity, 0, 0), "MissingComponent")
       ELSE /\ call' = Call("get", "Position", entity, 0, ContainerGet(Store, entity))
            /\ error' = "none"

\* ComponentContainer::remove
remove(entity) ==
    /\ error = "none"
    /\ UNCHANGED containerFrame
    /\ IF ~ContainerHas(Store, entity)
       THEN /\ Abort(Call("remove", "Position", entity, 0, 0), "MissingComponent")
            /\ UNCHANGED componentContainer_
       ELSE /\ componentContainer_' =
                   [componentContainer_ EXCEPT
                        !["Position"] = ContainerRemove(Store, entity)]
            /\ call' = Call("remove", "Position", entity,
                            Store.mapEntityToIndex_[entity], 0)
            /\ error' = "none"

\* ComponentContainer::destroyed
destroyed(entity) ==
    /\ error = "none"
    /\ UNCHANGED containerFrame
    /\ componentContainer_' =
           [componentContainer_ EXCEPT
                !["Position"] = ContainerDestroyed(Store, entity)]
    /\ call' = Call("destroyed", "Position", entity,
                    IF ContainerHas(Store, entity)
                    THEN Store.mapEntityToIndex_[entity] ELSE 0, 0)
    /\ error' = "none"

NextContainer ==
    \/ \E entity \in Entities, component \in Values : insert(entity, component)
    \/ \E entity \in Entities : get(entity)
    \/ \E entity \in Entities : remove(entity)
    \/ \E entity \in Entities : destroyed(entity)

SpecContainer == InitContainer /\ [][NextContainer]_vars

----------------------------------------------------------------------------
(* Claims about ComponentContainer, checked under SpecContainer.           *)

\* The two maps of a container describe the dense range [0, size_).
StoreDense(c) ==
    /\ DOMAIN c.mapIndexToEntity_ = 0 .. (c.size_ - 1)
    /\ Cardinality(DOMAIN c.mapEntityToIndex_) = c.size_
    /\ \A e \in DOMAIN c.mapEntityToIndex_ :
           /\ c.mapEntityToIndex_[e] \in 0 .. (c.size_ - 1)
           /\ c.mapIndexToEntity_[c.mapEntityToIndex_[e]] = e

\* C9: after any sequence of insert, remove and destroyed calls the keys of
\* the index-to-entity map are exactly [0, size_), the entity-to-index map
\* has exactly size_ keys, each mapped into [0, size_), and the two maps are
\* mutually inverse.
C9_StoreDensity ==
    \A T \in DOMAIN componentContainer_ : StoreDense(componentContainer_[T])

\* C9 witness: a remove took the entity of the last slot out of a container
\* that still holds another entity.
C9_Witness ==
    /\ call.op = "remove"
    /\ error = "none"
    /\ call.arg = Store.size_
    /\ Store.size_ >= 1

\* C10: remove(e) and destroyed(e) on a mapped entity e leave every other
\* mapped entity mapped, and get of it returns the value it returned before.
C10_SurvivorsKeepValue ==
    [][ ( /\ call'.op \in {"remove", "destroyed"}
          /\ error' = "none"
          /\ ContainerHas(Store, call'.entity) )
        => \A other \in (DOMAIN Store.mapEntityToIndex_) \ {call'.entity} :
               /\ ContainerHas(Store', other)
               /\ ContainerGet(Store', other) = ContainerGet(Store, other) ]_vars

\* C10 witness: a remove freed a slot that was not the last one, so the
\* entity of the last slot was moved into it.
C10_Witness ==
    /\ call.op = "remove"
    /\ error = "none"
    /\ call.arg < Store.size_
    /\ Store.mapIndexToEntity_[call.arg] # call.entity

----------------------------------------------------------------------------
(* Claims about the Registry, checked under Spec.                          *)

\* The signature the EntityManager holds for an entity.
SignatureOf(entity) == entitySignatures_[entity]

\* C1: for every live entity e and every registered component type T, the
\* bit componentType<T>() of e's signature is set if and only if T's
\* container holds an entry for e.
C1_SignatureStorageAgreement ==
    error = "none" =>
        \A e \in live, T \in DOMAIN componentTypes_ :
            (componentTypes_[T] \in SignatureOf(e))
                <=> ContainerHas(componentContainer_[T], e)

\* C2: right after a componentAdd, componentRemove or entityDestroy, for
\* every installed system S whose (non-zero) mask is set and every live
\* entity e, e is in S.entities if and only if signature(e) has every bit of
\* mask(S).
C2_QueryCorrectness ==
    (error = "none" /\ call.op \in {"componentAdd", "componentRemove", "entityDestroy"})
    => \A S \in (DOMAIN systems_) \cap (DOMAIN systemSignatures_) :
           systemSignatures_[S] # EmptySignature
           => \A e \in live :
                  (e \in systems_[S])
                      <=> SignatureMatchesBitwise(SignatureOf(e), systemSignatures_[S])

\* C3: signatureChanged(entity, newSignature), as componentAdd and
\* componentRemove call it, leaves the entity in the set of a system exactly
\* when every bit of the system's mask is set in newSignature.
C3_PerBitSupersetTest ==
    (error = "none" /\ call.op \in {"componentAdd", "componentRemove"})
    => \A S \in DOMAIN systems_ :
           (call.entity \in systems_[S])
               <=> SignatureMatchesBitwise(SignatureOf(call.entity),
                                           MaskOf(systemSignatures_, S))

\* C4: after componentAdd<T>(e, v) has succeeded on a live entity e,
\* componentGet<T>(e) succeeds and returns v.
C4_AddGetRoundTrip ==
    (error = "none" /\ call.op = "componentAdd" /\ call.entity \in live)
    => /\ Installed(call.type)
       /\ ContainerHas(componentContainer_[call.type], call.entity)
       /\ ContainerGet(componentContainer_[call.type], call.entity) = call.arg

\* C5: componentAdd<T> on a live entity that has no T component (no entry in
\* T's container, no T bit in its signature) never fails with
\* DuplicateRegistration, also when T is registered already.
C5_LazyRegistration ==
    ~( /\ call.op = "componentAdd"
       /\ error = "DuplicateRegistration"
       /\ call.entity \in live
       /\ ~ContainerHas(componentContainer_[call.type], call.entity)
       /\ componentTypes_[call.type] \notin SignatureOf(call.entity) )

\* C6: at most ENTITY_MAX entities are live; create fails with
\* CapacityExceeded exactly when ENTITY_MAX entities are live, and a create
\* that succeeds returns a handle that is not live.
C6_CapacityBound ==
    [][ /\ Cardinality(live') <= ENTITY_MAX
        /\ call'.op = "entityCreate"
           => /\ (error' = "CapacityExceeded") <=> (Cardinality(live) = ENTITY_MAX)
              /\ error' = "none" => call'.ret \notin live ]_vars

\* C7: destroy of a handle that is out of range or not live fails with
\* InvalidEntity and leaves the free queue, the living counter and the
\* signatures unchanged.
C7_DestroyRejectsNonLive ==
    [][ ( /\ call'.op = "entityDestroy"
          /\ (~InRange(call'.entity) \/ call'.entity \notin live) )
        => /\ error' = "InvalidEntity"
           /\ UNCHANGED << entitiesAvailable_, entitiesLiving_, entitySignatures_ >>
      ]_vars

\* C8: every handle create returns has the all-zero signature when it is
\* returned.
C8_CreatedSignatureZero ==
    (error = "none" /\ call.op = "entityCreate")
    => SignatureOf(call.ret) = EmptySignature

C12_MissingComponentFails ==
    [][ ( /\ call'.op \in {"componentGet", "componentRemove"}
          /\ Installed(call'.type)
          /\ call'.entity \notin DOMAIN componentContainer_[call'.type].mapEntityToIndex_ )
        => /\ error' = "MissingComponent"
           /\ UNCHANGED << entityVars, componentVars, systemVars >> ]_vars

\* C12 witness: componentRemove<T> failed with MissingComponent for a live
\* entity and a registered T.
C12_Witness ==
    /\ call.op = "componentRemove"
    /\ error = "MissingComponent"
    /\ call.entity \in live
    /\ Installed(call.type)

\* C13 (as stated): when systemSignature<S>(mask) directly follows
\* systemInstall<S>, the membership set of S is the set of live entities whose
\* signature contains every bit of the mask.
C13_LateSystemHasMatchingMembers ==
    [][ ( /\ call.op = "systemInstall"
          /\ error = "none"
          /\ call'.op = "systemSignature"
          /\ call'.type = call.type
          /\ error' = "none" )
        => systems_'[call.type] =
               {entity \in live :
                    SignatureMatchesBitwise(entitySignatures_'[entity], call'.arg)} ]_vars

\* C13 (amended): when systemSignature<S>(mask) directly follows
\* systemInstall<S>, the membership set of S is empty, whatever components the
\* live entities carry.
C13_LateSystemStartsEmpty ==
    [][ ( /\ call.op = "systemInstall"
          /\ error = "none"
          /\ call'.op = "systemSignature"
          /\ call'.type = call.type
          /\ error' = "none" )
        => systems_'[call.type] = {} ]_vars

\* C13 witness: S has just been installed and given a non-zero mask while a
\* live entity carries every bit of that mask.
C13_Witness ==
    /\ call.op = "systemSignature"
    /\ error = "none"
    /\ call.arg # EmptySignature
    /\ systemSignatures_[call.type] = call.arg
    /\ \E entity \in live :
           /\ SignatureMatchesBitwise(entitySignatures_[entity], call.arg)
           /\ entity \notin systems_[call.type]

\* C14: after a successful systemSignature<S>(mask), the mask stored for S,
\* which every later signatureChanged reads, is the mask of that call.
C14_SignatureReplacesMask ==
    ( /\ call.op = "systemSignature"
      /\ error = "none" )
    => /\ call.type \in DOMAIN systemSignatures_
       /\ systemSignatures_[call.type] = call.arg

\* C15: a systemSignature<S>(mask) step leaves every system's membership set,
\* all entity signatures and all component stores unchanged; an entity's
\* membership in a system changes only in a componentAdd, componentRemove or
\* entityDestroy step on that entity.
C15_SignatureDoesNotReevaluate ==
    [][ /\ call'.op = "systemSignature"
           => UNCHANGED << systems_, entityVars, componentVars >>
        /\ \A S \in DOMAIN systems_ : \A entity \in Entities :
               (S \in DOMAIN systems_' /\ (entity \in systems_[S]) # (entity \in systems_'[S]))
               => /\ call'.op \in {"componentAdd", "componentRemove", "entityDestroy"}
                  /\ call'.entity = entity ]_vars

\* C15 witness: systemSignature<S> has stored a non-zero mask for a system
\* whose membership set disagrees with that mask on a live entity.
C15_Witness ==
    /\ call.op = "systemSignature"
    /\ error = "none"
    /\ systemSignatures_[call.type] = call.arg
    /\ call.arg # EmptySignature
    /\ \E entity \in live :
           (entity \in systems_[call.type])
           # SignatureMatchesBitwise(entitySignatures_[entity], call.arg)

\* C16: entityDestroy(e) on a live entity e succeeds and leaves e's signature
\* all-zero, e in no component container, e in no system's entity set and e at
\* the back of the queue of available handles; the signature, the component
\* values and the system membership of every other entity are unchanged.
C16_DestroyCascade ==
    [][ ( /\ call'.op = "entityDestroy"
          /\ call'.entity \in live )
        => LET e == call'.entity IN
           /\ error' = "none"
           /\ entitySignatures_'[e] = EmptySignature
           /\ DOMAIN componentContainer_' = DOMAIN componentContainer_
           /\ \A T \in DOMAIN componentContainer_' :
                  LET old == componentContainer_[T]
                      new == componentContainer_'[T]
                  IN
                  /\ e \notin DOMAIN new.mapEntityToIndex_
                  /\ \A index \in DOMAIN new.mapIndexToEntity_ :
                         new.mapIndexToEntity_[index] # e
                  /\ DOMAIN new.mapEntityToIndex_ = DOMAIN old.mapEntityToIndex_ \ {e}
                  /\ \A other \in DOMAIN new.mapEntityToIndex_ :
                         ContainerGet(new, other) = ContainerGet(old, other)
           /\ DOMAIN systems_' = DOMAIN systems_
           /\ \A S \in DOMAIN systems_' : systems_'[S] = systems_[S] \ {e}
           /\ entitiesAvailable_' = Append(entitiesAvailable_, e)
           /\ live' = live \ {e}
           /\ \A other \in Entities \ {e} :
                  entitySignatures_'[other] = entitySignatures_[other] ]_vars

\* C16 witness: an entityDestroy has returned with the destroyed handle once
\* in the queue and not live, while another live entity with a non-zero
\* signature is still a member of an installed system.
C16_Witness ==
    /\ call.op = "entityDestroy"
    /\ error = "none"
    /\ call.entity \notin live
    /\ Cardinality({i \in DOMAIN entitiesAvailable_ :
                        entitiesAvailable_[i] = call.entity}) = 1
    /\ entitiesLiving_ = Cardinality(live)
    /\ entitiesLiving_ + Len(entitiesAvailable_) = ENTITY_MAX
    /\ \E S \in DOMAIN systems_ : \E other \in live :
           /\ other \in systems_[S]
           /\ entitySignatures_[other] # EmptySignature

----------------------------------------------------------------------------
(* A ComponentManager used directly, in the state the Registry's           *)
(* constructor leaves it in: add, destroyed, get, getType, install and     *)
(* remove, on one more component type than COMPONENT_MAX allows.           *)

ManagerTypes == {"Position", "Velocity", "Health"}

\* The state the Registry's constructor leaves behind; the build's reading of
\* signatureChanged's test is not read by the manager.
InitManager ==
    /\ Init
    /\ boolToBitset = FALSE

\* Every ComponentManager call: the program still runs, and the call is
\* counted.
RunningManager ==
    /\ error = "none"
    /\ calls < MaxManagerCalls
    /\ calls' = calls + 1

\* Everything but the component manager.
managerFrame == << entityVars, systemVars, boolToBitset >>

\* ComponentManager::install<T>
cmInstall(T) ==
    /\ RunningManager
    /\ UNCHANGED managerFrame
    /\ IF Installed(T)
       THEN /\ Abort(Call("ComponentManager::install", T, 0, 0, 0),
                     "DuplicateRegistration")
            /\ UNCHANGED componentVars
       ELSE /\ componentTypes_' = InstallTypes(T)
            /\ componentContainer_' = InstallContainers(T)
            /\ nextType_' = nextType_ + 1
            /\ call' = Call("ComponentManager::install", T, 0, 0, nextType_)
            /\ error' = "none"

\* ComponentManager::getType<T>
cmGetType(T) ==
    /\ RunningManager
    /\ UNCHANGED << managerFrame, componentVars >>
    /\ IF ~Installed(T)
       THEN Abort(Call("ComponentManager::getType", T, 0, 0, 0), "NotRegistered")
       ELSE /\ call' = Call("ComponentManager::getType", T, 0, 0, componentTypes_[T])
            /\ error' = "none"

\* ComponentManager::add<T> -> getContainer_<T>()->insert
cmAdd(T, entity, component) ==
    /\ RunningManager
    /\ UNCHANGED << managerFrame, componentTypes_, nextType_ >>
    /\ IF ~Installed(T)
       THEN /\ Abort(Call("ComponentManager::add", T, entity, component, 0),
                     "NotRegistered")
            /\ UNCHANGED componentContainer_
       ELSE IF ContainerHas(componentContainer_[T], entity)
       THEN /\ Abort(Call("ComponentManager::add", T, entity, component, 0),
                     "DuplicateComponent")
            /\ UNCHANGED componentContainer_
       ELSE /\ componentContainer_' =
                   [componentContainer_ EXCEPT
                        ![T] = ContainerInsert(componentContainer_[T], entity, component)]
            /\ call' = Call("ComponentManager::add", T, entity, component, 0)
            /\ error' = "none"

\* ComponentManager::get<T> -> getContainer_<T>()->get
cmGet(T, entity) ==
    /\ RunningManager
    /\ UNCHANGED << managerFrame, componentVars >>
    /\ IF ~Installed(T)
       THEN Abort(Call("ComponentManager::get", T, entity, 0, 0), "NotRegistered")
       ELSE IF ~ContainerHas(componentContainer_[T], entity)
       THEN Abort(Call("ComponentManager::get", T, entity, 0, 0), "MissingComponent")
       ELSE /\ call' = Call("ComponentManager::get", T, entity, 0,
                            ContainerGet(componentContainer_[T], entity))
            /\ error' = "none"

\* ComponentManager::remove<T> -> getContainer_<T>()->remove
cmRemove(T, entity) ==
    /\ RunningManager
    /\ UNCHANGED << managerFrame, componentTypes_, nextType_ >>
    /\ IF ~Installed(T)
       THEN /\ Abort(Call("ComponentManager::remove", T, entity, 0, 0),
                     "NotRegistered")
            /\ UNCHANGED componentContainer_
       ELSE IF ~ContainerHas(componentContainer_[T], entity)
       THEN /\ Abort(Call("ComponentManager::remove", T, entity, 0, 0),
                     "MissingComponent")
            /\ UNCHANGED componentContainer_
       ELSE /\ componentContainer_' =
                   [componentContainer_ EXCEPT
                        ![T] = ContainerRemove(componentContainer_[T], entity)]
            /\ call' = Call("ComponentManager::remove", T, entity, 0, 0)
            /\ error' = "none"

\* ComponentManager::destroyed: every container's destroyed(entity).  The
\* call record keeps the number of containers that held the entity.
cmDestroyed(entity) ==
    /\ RunningManager
    /\ UNCHANGED << managerFrame, componentTypes_, nextType_ >>
    /\ componentContainer_' = ManagerDestroyed(componentContainer_, entity)
    /\ call' = Call("ComponentManager::destroyed", "none", entity,
                    Cardinality({T \in DOMAIN componentContainer_ :
                                     ContainerHas(componentContainer_[T], entity)}), 0)
    /\ error' = "none"

NextManager ==
    \/ \E T \in ManagerTypes : cmInstall(T)
    \/ \E T \in ManagerTypes : cmGetType(T)
    \/ \E T \in ManagerTypes, entity \in Entities, component \in Values :
           cmAdd(T, entity, component)
    \/ \E T \in ManagerTypes, entity \in Entities : cmGet(T, entity)
    \/ \E T \in ManagerTypes, entity \in Entities : cmRemove(T, entity)
    \/ \E entity \in Entities : cmDestroyed(entity)

SpecManager == InitManager /\ [][NextManager]_vars

\* C17: ComponentManager::destroyed(e) returns normally; a container that has
\* no entry for e is left exactly as it was (array, both maps and size_), and
\* a container that has one is left as remove(e) leaves it.
C17_DestroyedNoOpOrRemove ==
    [][ call'.op = "ComponentManager::destroyed"
        => /\ error' = "none"
           /\ DOMAIN componentContainer_' = DOMAIN componentContainer_
           /\ \A T \in DOMAIN componentContainer_ :
                  componentContainer_'[T] =
                      IF call'.entity \in DOMAIN componentContainer_[T].mapEntityToIndex_
                      THEN ContainerRemove(componentContainer_[T], call'.entity)
                      ELSE componentContainer_[T] ]_vars

\* C17 witness: destroyed(e) has returned where some registered containers
\* held e and others did not.
C17_Witness ==
    /\ call.op = "ComponentManager::destroyed"
    /\ error = "none"
    /\ call.arg >= 1
    /\ call.arg < Cardinality(DOMAIN componentContainer_)

\* C18: every registered component type has a slot in [0, COMPONENT_MAX),
\* distinct types have distinct slots, a slot once assigned never changes, a
\* first install<T> assigns the lowest slot not yet assigned, and an
\* install<T> of a registered T fails with DuplicateRegistration and changes
\* nothing.
C18_TypeSlots ==
    [][ /\ \A T \in DOMAIN componentTypes_' :
               componentTypes_'[T] \in 0 .. (COMPONENT_MAX - 1)
        /\ \A T1, T2 \in DOMAIN componentTypes_' :
               T1 # T2 => componentTypes_'[T1] # componentTypes_'[T2]
        /\ \A T \in DOMAIN componentTypes_ :
               /\ T \in DOMAIN componentTypes_'
               /\ componentTypes_'[T] = componentTypes_[T]
        /\ call'.op = "ComponentManager::install"
           => IF call'.type \in DOMAIN componentTypes_
              THEN /\ error' = "DuplicateRegistration"
                   /\ UNCHANGED componentVars
              ELSE /\ error' = "none"
                   /\ componentTypes_'[call'.type] =
                          Cardinality(DOMAIN componentTypes_) ]_vars

----------------------------------------------------------------------------
(* Registry::entityDestroy statement by statement: the call record's op is *)
(* the position inside the call ("EntityManager::destroy" and              *)
(* "ComponentManager::destroyed" name the statement that has just          *)
(* returned, "entityDestroy" the call that has returned).                  *)

\* No entityDestroy call is under way.
Idle == call.op \notin {"EntityManager::destroy", "ComponentManager::destroyed"}

\* entityManager_->destroy(entity)
entityDestroy_destroy(entity) ==
    /\ Running
    /\ Idle
    /\ Len(entitiesAvailable_) < MaxAvailable
    /\ UNCHANGED << componentVars, systemVars, boolToBitset >>
    /\ IF ~InRange(entity)
       THEN /\ Abort(Call("EntityManager::destroy", "none", entity, 0, 0),
                     "InvalidEntity")
            /\ UNCHANGED entityVars
       ELSE /\ entitySignatures_' = [entitySignatures_ EXCEPT ![entity] = EmptySignature]
            /\ entitiesAvailable_' = Append(entitiesAvailable_, entity)
            /\ entitiesLiving_' = Decrement(entitiesLiving_)
            /\ live' = live \ {entity}
            /\ call' = Call("EntityManager::destroy", "none", entity, 0, 0)
            /\ error' = "none"

\* entityDestroyed(entity) done as a signature change, with the signature the
\* entity manager holds for the entity at that point.
entityDestroy_entityDestroyedBySignature ==
    /\ error = "none"
    /\ call.op = "ComponentManager::destroyed"
    /\ systems_' = SystemsAfterChange(systems_, systemSignatures_, call.entity,
                                      entitySignatures_[call.entity])
    /\ systemSignatures_' = MasksAfterChange(systemSignatures_, systems_)
    /\ call' = [call EXCEPT !.op = "entityDestroy"]
    /\ UNCHANGED << entityVars, componentVars, boolToBitset, calls, error >>

\* componentManager_->destroyed(entity)
entityDestroy_destroyed ==
    /\ error = "none"
    /\ call.op = "EntityManager::destroy"
    /\ componentContainer_' = ManagerDestroyed(componentContainer_, call.entity)
    /\ call' = [call EXCEPT !.op = "ComponentManager::destroyed"]
    /\ UNCHANGED << entityVars, componentTypes_, nextType_, systemVars,
                    boolToBitset, calls, error >>

\* systemManager_->entityDestroyed(entity), and the return
entityDestroy_entityDestroyed ==
    /\ error = "none"
    /\ call.op = "ComponentManager::destroyed"
    /\ systems_' = SystemsAfterDestroyed(systems_, call.entity)
    /\ call' = [call EXCEPT !.op = "entityDestroy"]
    /\ UNCHANGED << entityVars, componentVars, systemSignatures_,
                    boolToBitset, calls, error >>

\* The other Registry calls start only between entityDestroy calls.
NextDestroy ==
    \/ \E entity \in EntityArgs : entityDestroy_destroy(entity)
    \/ entityDestroy_destroyed
    \/ entityDestroy_entityDestroyed
    \/ Idle /\ entityCreate
    \/ Idle /\ \E T \in ComponentTypes, entity \in EntityArgs, component \in Values :
                   componentAdd(T, entity, component)
    \/ Idle /\ \E T \in ComponentTypes, entity \in EntityArgs : componentRemove(T, entity)
    \/ Idle /\ \E S \in SystemTypes : systemInstall(S)
    \/ Idle /\ \E S \in SystemTypes, signature \in Signature : systemSignature(S, signature)

SpecDestroy == Init /\ [][NextDestroy]_vars

\* C19: inside entityDestroy the entity manager's destroy comes first and
\* touches only the entity manager, the component manager's destroyed comes
\* second and touches only the containers, the system manager's
\* entityDestroyed comes third and touches only the systems' entity sets;
\* nothing else runs in between, and from the first step on the entity's
\* signature is all-zero and what the later steps do does not depend on it:
\* the entity leaves every system whatever the masks are.
C19_DestroyOrder ==
    [][ LET afterDestroy   == call.op = "EntityManager::destroy" /\ error = "none"
            afterDestroyed == call.op = "ComponentManager::destroyed"
        IN
        /\ call'.op = "EntityManager::destroy"
           => /\ ~afterDestroy /\ ~afterDestroyed
              /\ UNCHANGED << componentVars, systemVars >>
              /\ error' = "none" => entitySignatures_'[call'.entity] = EmptySignature
        /\ call'.op = "ComponentManager::destroyed" => afterDestroy
        /\ afterDestroy
           => /\ call'.op = "ComponentManager::destroyed"
              /\ call'.entity = call.entity
              /\ UNCHANGED << entityVars, systemVars >>
        /\ call'.op = "entityDestroy" => afterDestroyed
        /\ afterDestroyed
           => /\ call'.op = "entityDestroy"
              /\ call'.entity = call.entity
              /\ UNCHANGED << entityVars, componentVars, systemSignatures_ >>
              /\ DOMAIN systems_' = DOMAIN systems_
              /\ \A S \in DOMAIN systems_ : systems_'[S] = systems_[S] \ {call.entity}
        /\ (afterDestroy \/ afterDestroyed)
           => entitySignatures_[call.entity] = EmptySignature ]_vars

\* C19 witness: inside an entityDestroy, the entity manager and the component
\* manager have done their steps (the handle is not live, its signature is
\* zero, it is in the queue) and the entity is still in a system's entity
\* set.
C19_Witness ==
    /\ call.op = "ComponentManager::destroyed"
    /\ error = "none"
    /\ call.entity \notin live
    /\ entitySignatures_[call.entity] = EmptySignature
    /\ \E i \in DOMAIN entitiesAvailable_ : entitiesAvailable_[i] = call.entity
    /\ \E S \in DOMAIN systems_ : call.entity \in systems_[S]

\* C20: the queue of available handles holds no handle twice and no live
\* handle, entitiesLiving_ is the number of handles issued and not yet
\* destroyed, entitiesLiving_ plus the queue's length is ENTITY_MAX, and
\* entityCreate never returns a handle that is live.
C20_RecyclingPool ==
    [][ /\ \A i, j \in DOMAIN entitiesAvailable_' :
               i # j => entitiesAvailable_'[i] # entitiesAvailable_'[j]
        /\ \A i \in DOMAIN entitiesAvailable_' : entitiesAvailable_'[i] \notin live'
        /\ entitiesLiving_' = Cardinality(live')
        /\ entitiesLiving_' + Len(entitiesAvailable_') = ENTITY_MAX
        /\ (call'.op = "entityCreate" /\ error' = "none") => call'.ret \notin live ]_vars

============================================================================
